---------------------------- MODULE Spec2Model ----------------------------
(***************************************************************************)
(* prepare_dataset (utils/prepare_dataset.py): the feature-preparation     *)
(* pipeline, one action per stage of the function.                         *)
(*                                                                         *)
(* A cell is <<v>> (a number) or <<>> (NaN).  A frame is a record          *)
(*   [index |-> sequence of row labels,                                    *)
(*    columns |-> sequence of [name, cells]]                               *)
(* with every cells sequence aligned with index.  Statistics are computed  *)
(* exactly on integers: a quantile is carried times 4, a fence times 8,    *)
(* a variance and a covariance times n*n, and |corr| > p/q is decided as   *)
(* q*q*cov*cov > p*p*vx*vy.  Floating-point rounding is not modelled.      *)
(***************************************************************************)
EXTENDS Integers, Sequences, FiniteSets, TLC

(* ------------------------------ bounds -------------------------------- *)
NRows == 4
MaxFeatures == 3

(* ------------------------------ cells --------------------------------- *)
Missing == <<>>
Num(x) == <<x>>
IsNA(c) == c = Missing
Value(c) == c[1]

RECURSIVE Sum(_, _)
Sum(f, S) ==
  IF S = {} THEN 0
  ELSE LET i == CHOOSE k \in S : TRUE IN f[i] + Sum(f, S \ {i})

RECURSIVE Take(_, _, _)
Take(s, K, i) ==
  IF i > Len(s) THEN <<>>
  ELSE (IF i \in K THEN <<s[i]>> ELSE <<>>) \o Take(s, K, i + 1)

(* ------------------------------ frames -------------------------------- *)
EmptyFrame == [index |-> <<>>, columns |-> <<>>]
Names(f) == [i \in 1..Len(f.columns) |-> f.columns[i].name]
NameSet(f) == {f.columns[i].name : i \in 1..Len(f.columns)}
HasCol(f, n) == n \in NameSet(f)
Position(f, n) ==
  CHOOSE i \in 1..Len(f.columns) :
    /\ f.columns[i].name = n
    /\ \A k \in 1..(i - 1) : f.columns[k].name # n
Series(f, n) == f.columns[Position(f, n)].cells
DropColumns(f, S) ==
  [f EXCEPT !.columns = SelectSeq(f.columns, LAMBDA c : c.name \notin S)]
KeepColumns(f, S) ==
  [f EXCEPT !.columns = SelectSeq(f.columns, LAMBDA c : c.name \in S)]
FilterRows(f, K) ==
  [index |-> Take(f.index, K, 1),
   columns |-> [i \in 1..Len(f.columns) |->
                  [name |-> f.columns[i].name,
                   cells |-> Take(f.columns[i].cells, K, 1)]]]
SetColumn(f, n, cells) ==
  IF HasCol(f, n)
  THEN [f EXCEPT !.columns[Position(f, n)].cells = cells]
  ELSE [f EXCEPT !.columns = Append(f.columns, [name |-> n, cells |-> cells])]

(* --------------------------- column statistics ------------------------ *)
Valid(s) == {i \in 1..Len(s) : ~IsNA(s[i])}
nunique(s) == Cardinality({s[i] : i \in Valid(s)})
HasNA(s) == \E i \in 1..Len(s) : IsNA(s[i])

Kth(s, k) ==
  CHOOSE x \in {Value(s[i]) : i \in Valid(s)} :
    /\ Cardinality({i \in Valid(s) : Value(s[i]) < x}) < k
    /\ Cardinality({i \in Valid(s) : Value(s[i]) <= x}) >= k

\* Series.quantile(num/4), linear interpolation over the non-missing values,
\* times 4; NaN when there is no value.
Quantile4(s, num) ==
  LET m == Cardinality(Valid(s)) IN
  IF m = 0 THEN Missing
  ELSE LET pos4 == num * (m - 1)
           lo == pos4 \div 4
           rem == pos4 % 4
           a == Kth(s, lo + 1)
           b == IF rem = 0 THEN a ELSE Kth(s, lo + 2)
       IN Num(4 * a + rem * (b - a))

\* n*n times the covariance of x and y over the rows where both are present.
Cov(x, y) ==
  LET I == Valid(x) \cap Valid(y)
      n == Cardinality(I)
      Sx == Sum([i \in I |-> Value(x[i])], I)
      Sy == Sum([i \in I |-> Value(y[i])], I)
      Sxy == Sum([i \in I |-> Value(x[i]) * Value(y[i])], I)
  IN n * Sxy - Sx * Sy

\* Series.std(): NaN with fewer than two values.
StdDefined(s) == Cardinality(Valid(s)) >= 2
StdIsZero(s) == StdDefined(s) /\ Cov(s, s) = 0

\* Pearson correlation over the pairwise-complete rows; NaN on zero variance.
PairX(x, y) == [i \in 1..Len(x) |-> IF IsNA(y[i]) THEN Missing ELSE x[i]]
CorrDefined(x, y) ==
  /\ Cov(PairX(x, y), PairX(x, y)) > 0
  /\ Cov(PairX(y, x), PairX(y, x)) > 0
AbsCorrAbove(x, y, thr) ==
  /\ CorrDefined(x, y)
  /\ thr.den * thr.den * Cov(x, y) * Cov(x, y)
       > thr.num * thr.num * Cov(PairX(x, y), PairX(x, y))
                           * Cov(PairX(y, x), PairX(y, x))

\* np.log10(v + 1e-6) on the tabulated target values, to six decimals:
\* NaN below zero, -6 at 0, 0 at 1, 1 at 10.
Log10Cell(c) ==
  IF IsNA(c) THEN Missing
  ELSE IF Value(c) < 0 THEN Missing
  ELSE CASE Value(c) = 0 -> Num(0 - 6)
         [] Value(c) = 1 -> Num(0)
         [] Value(c) = 10 -> Num(1)
LogName(t) == "log_" \o t

(* ------------------------------- inputs ------------------------------- *)
Rows == 1..NRows
Half(r) == IF 2 * r > NRows THEN 1 ELSE 0

\* The columns a dataset is drawn from, in their column order.
Catalog ==
  << [name |-> "A",        cells |-> [r \in Rows |-> Num(Half(r))]],
     [name |-> "B",        cells |-> [r \in Rows |-> Num(Half(r) + (r % 2))]],
     [name |-> "C",        cells |-> [r \in Rows |-> Num(r % 2)]],
     [name |-> "SI",       cells |-> [r \in Rows |-> Num(IF r = NRows THEN 1 ELSE 0)]],
     [name |-> "CC50",     cells |-> [r \in Rows |-> IF r = 1 THEN Missing ELSE Num(r % 2)]],
     [name |-> "K",        cells |-> [r \in Rows |-> Num(2)]],
     [name |-> "log_IC50", cells |-> [r \in Rows |-> Num((r + 1) % 2)]] >>

TargetNames == {"IC50"}
TargetCells ==
  { [r \in Rows |-> Num(IF r = 1 THEN 0 ELSE IF r = NRows THEN 10 ELSE 1)],
    [r \in Rows |-> Num(IF r = NRows THEN 10 ELSE 0)],
    [r \in Rows |-> Num(IF r = 1 THEN 0 - 1 ELSE IF r = NRows THEN 1 ELSE 0)],
    [r \in Rows |-> IF r = 1 THEN Missing ELSE Num(IF r = NRows THEN 10 ELSE r % 2)],
    [r \in Rows |-> Num(1)] }

KeyColsChoices ==
  { {}, {"IC50", "CC50", "SI"}, {"IC50", "CC50", "SI", "log_IC50"} }
CorrThresholds == { [num |-> 1, den |-> 2], [num |-> 17, den |-> 20] }
MinCorrTargets == { [num |-> 1, den |-> 20], [num |-> 1, den |-> 2] }

\* All datasets: at most MaxFeatures catalog columns, the target inserted at
\* any position.
InsertAt(s, p, e) == SubSeq(s, 1, p - 1) \o <<e>> \o SubSeq(s, p, Len(s))
Datasets(t) ==
  UNION { { [index |-> [r \in Rows |-> r],
             columns |-> InsertAt(Take(Catalog, S, 1), p,
                                  [name |-> t, cells |-> tc])] :
              p \in 1..(Cardinality(S) + 1), tc \in TargetCells } :
          S \in {X \in SUBSET (1..Len(Catalog)) : Cardinality(X) <= MaxFeatures} }

(* ------------------------------- state -------------------------------- *)
VARIABLES
  dataset, target_col, key_cols, log_transform, corr_threshold,
  min_corr_target, classification,
  data, target_name, features, drop_high_corr, dataset_prepared,
  pc, run

config == <<target_col, log_transform, corr_threshold, min_corr_target,
            classification>>
vars == <<dataset, key_cols, config, data, target_name, features,
          drop_high_corr, dataset_prepared, pc, run>>

Init ==
  /\ target_col \in TargetNames
  /\ dataset \in Datasets(target_col)
  /\ key_cols \in KeyColsChoices
  /\ log_transform \in BOOLEAN
  /\ classification \in BOOLEAN
  /\ corr_threshold \in CorrThresholds
  /\ min_corr_target \in MinCorrTargets
  /\ data = dataset
  /\ target_name = ""
  /\ features = EmptyFrame
  /\ drop_high_corr = <<>>
  /\ dataset_prepared = EmptyFrame
  /\ pc = "constant"
  /\ run = 1


(* --------------------- the stages of prepare_dataset ------------------ *)
\* nunique = data.nunique(); constant_features = nunique[nunique == 1].index
ConstantFeatures(f) ==
  {f.columns[i].name : i \in {k \in 1..Len(f.columns) : nunique(f.columns[k].cells) = 1}}

RemoveConstant ==
  /\ pc = "constant"
  /\ data' = DropColumns(data, ConstantFeatures(data))
  /\ pc' = "key"
  /\ UNCHANGED <<dataset, key_cols, config, target_name, features,
                 drop_high_corr, dataset_prepared, run>>

DropKeyDiscarded(f, keys, t) == {}
\* drop_key = [c for c in key_cols if c in data.columns and c != target_col]
DropKey(f, keys, t) == {c \in keys : HasCol(f, c) /\ c # t}

RemoveKeyCols ==
  /\ pc = "key"
  /\ data' = DropColumns(data, DropKey(data, key_cols, target_col))
  /\ pc' = "outlier"
  /\ UNCHANGED <<dataset, key_cols, config, target_name, features,
                 drop_high_corr, dataset_prepared, run>>

\* (s >= Q1 - 1.5 * IQR) & (s <= Q3 + 1.5 * IQR), everything times 8; a
\* comparison with NaN is false.
InFenceStrict(c, q1, q3) ==
  /\ ~IsNA(c) /\ ~IsNA(q1) /\ ~IsNA(q3)
  /\ 8 * Value(c) > 2 * Value(q1) - 3 * (Value(q3) - Value(q1))
  /\ 8 * Value(c) < 2 * Value(q3) + 3 * (Value(q3) - Value(q1))
InFence(c, q1, q3) ==
  /\ ~IsNA(c) /\ ~IsNA(q1) /\ ~IsNA(q3)
  /\ 8 * Value(c) >= 2 * Value(q1) - 3 * (Value(q3) - Value(q1))
  /\ 8 * Value(c) <= 2 * Value(q3) + 3 * (Value(q3) - Value(q1))
FenceRows(s) ==
  {i \in 1..Len(s) : InFence(s[i], Quantile4(s, 1), Quantile4(s, 3))}

\* data[target_col] raises KeyError when the target was dropped as constant.
RemoveOutliers ==
  /\ pc = "outlier"
  /\ IF classification
     THEN /\ pc' = "transform"
          /\ UNCHANGED data
     ELSE IF ~HasCol(data, target_col)
     THEN /\ pc' = "error"
          /\ UNCHANGED data
     ELSE /\ data' = FilterRows(data, FenceRows(Series(data, target_col)))
          /\ pc' = "transform"
  /\ UNCHANGED <<dataset, key_cols, config, target_name, features,
                 drop_high_corr, dataset_prepared, run>>

UseLogInBothModes == log_transform
UseLog == log_transform /\ ~classification

\* data[target_col] raises KeyError when the column is absent.
TargetTransform ==
  /\ pc = "transform"
  /\ IF UseLog /\ ~HasCol(data, target_col)
     THEN /\ pc' = "error"
          /\ UNCHANGED <<data, target_name>>
     ELSE IF UseLog
     THEN /\ data' = SetColumn(data, LogName(target_col),
                     [i \in 1..Len(data.index) |->
                        Log10Cell(Series(data, target_col)[i])])
          /\ target_name' = LogName(target_col)
          /\ pc' = "assemble"
     ELSE /\ target_name' = target_col
          /\ pc' = "assemble"
          /\ UNCHANGED data
  /\ UNCHANGED <<dataset, key_cols, config, features, drop_high_corr,
                 dataset_prepared, run>>

\* drop_cols = [c for c in [target_col, f"log_{target_col}"]
\*              if c in data.columns and c != target_name]
DropCols(f, t, tn) == {c \in {t, LogName(t)} : HasCol(f, c) /\ c # tn}

AssembleFeatures ==
  /\ pc = "assemble"
  /\ features' = DropColumns(data, DropCols(data, target_col, target_name))
  /\ pc' = "cleanup"
  /\ UNCHANGED <<dataset, key_cols, config, data, target_name,
                 drop_high_corr, dataset_prepared, run>>

\* stds = features.std(); zero_std = stds[stds == 0].index
ZeroStd(f) ==
  {f.columns[i].name : i \in {k \in 1..Len(f.columns) : StdIsZero(f.columns[k].cells)}}
\* features.dropna(axis=1)
NAColumns(f) ==
  {f.columns[i].name : i \in {k \in 1..Len(f.columns) : HasNA(f.columns[k].cells)}}

CleanFeatures ==
  /\ pc = "cleanup"
  /\ features' = LET g == DropColumns(features, ZeroStd(features))
                 IN DropColumns(g, NAColumns(g))
  /\ pc' = "select"
  /\ UNCHANGED <<dataset, key_cols, config, data, target_name,
                 drop_high_corr, dataset_prepared, run>>

\* corrs = features.corrwith(data[target_name]).abs().dropna()
\* selected_features = corrs[corrs > min_corr_target].index
SelectedFeatures(f, ts, thr) ==
  {f.columns[i].name :
     i \in {k \in 1..Len(f.columns) : AbsCorrAbove(f.columns[k].cells, ts, thr)}}

SelectFeatures ==
  /\ pc = "select"
  /\ IF classification
     THEN UNCHANGED features
     ELSE features' = KeepColumns(features,
            SelectedFeatures(features, Series(data, target_name), min_corr_target))
  /\ pc' = "prune"
  /\ UNCHANGED <<dataset, key_cols, config, data, target_name,
                 drop_high_corr, dataset_prepared, run>>

\* upper = the strict upper triangle of features.corr().abs();
\* drop_high_corr = [column for column in upper.columns
\*                   if any(upper[column] > corr_threshold)]
UpperSkipAdjacent(f, i, j, thr) ==
  i + 1 < j /\ AbsCorrAbove(f.columns[i].cells, f.columns[j].cells, thr)
Upper(f, i, j, thr) ==
  i < j /\ AbsCorrAbove(f.columns[i].cells, f.columns[j].cells, thr)
RECURSIVE GreedyHit(_, _, _)
GreedyHit(f, thr, j) ==
  IF j = 0 THEN {}
  ELSE LET prev == GreedyHit(f, thr, j - 1)
       IN IF \E i \in (1..(j - 1)) \ prev :
               AbsCorrAbove(f.columns[i].cells, f.columns[j].cells, thr)
          THEN prev \cup {j} ELSE prev
DropHighCorrGreedy(f, thr) ==
  Take(Names(f), GreedyHit(f, thr, Len(f.columns)), 1)
DropHighCorr(f, thr) ==
  LET hit == {j \in 1..Len(f.columns) :
                \E i \in 1..Len(f.columns) : Upper(f, i, j, thr)}
  IN Take(Names(f), hit, 1)
Range(s) == {s[i] : i \in 1..Len(s)}

PruneCorrelated ==
  /\ pc = "prune"
  /\ drop_high_corr' = DropHighCorr(features, corr_threshold)
  /\ features' = DropColumns(features, Range(drop_high_corr'))
  /\ pc' = "final"
  /\ UNCHANGED <<dataset, key_cols, config, data, target_name,
                 dataset_prepared, run>>

\* pd.concat([features, data[target_name]], axis=1)
Concat(f, n, cells) ==
  [f EXCEPT !.columns = Append(f.columns, [name |-> n, cells |-> cells])]
\* dataset_prepared.loc[:, ~dataset_prepared.columns.duplicated()]
Deduplicated(f) ==
  LET first == {i \in 1..Len(f.columns) :
                  \A k \in 1..(i - 1) : f.columns[k].name # f.columns[i].name}
  IN [f EXCEPT !.columns = Take(f.columns, first, 1)]

\* data[target_name] raises KeyError when the target was dropped as constant.
Finalize ==
  /\ pc = "final"
  /\ IF ~HasCol(data, target_name)
     THEN /\ pc' = "error"
          /\ UNCHANGED dataset_prepared
     ELSE /\ dataset_prepared' =
               Deduplicated(Concat(features, target_name, Series(data, target_name)))
          /\ pc' = "done"
  /\ UNCHANGED <<dataset, key_cols, config, data, target_name, features,
                 drop_high_corr, run>>

\* The returned dataset is passed to prepare_dataset again, with the same
\* configuration and key_cols empty.
CallAgain ==
  /\ pc = "done"
  /\ run = 1
  /\ dataset' = dataset_prepared
  /\ key_cols' = {}
  /\ data' = dataset_prepared
  /\ target_name' = ""
  /\ features' = EmptyFrame
  /\ drop_high_corr' = <<>>
  /\ dataset_prepared' = EmptyFrame
  /\ pc' = "constant"
  /\ run' = 2
  /\ UNCHANGED config

Next ==
  \/ RemoveConstant
  \/ RemoveKeyCols
  \/ RemoveOutliers
  \/ TargetTransform
  \/ AssembleFeatures
  \/ CleanFeatures
  \/ SelectFeatures
  \/ PruneCorrelated
  \/ Finalize
  \/ CallAgain

Spec == Init /\ [][Next]_vars

(* ------------------------------ properties ---------------------------- *)
Returned == pc = "done"
Stopped == pc \in {"done", "error"}
Out == dataset_prepared
\* The name the claims give the target column of the output.
ExpectedTarget ==
  IF log_transform /\ ~classification THEN LogName(target_col) ELSE target_col
OtherColumns(f) == {i \in 1..Len(f.columns) : f.columns[i].name # ExpectedTarget}

\* C1 as stated: every key column other than target_col is absent from the
\* returned dataset, in every configuration.
C1_KeyColsAbsent ==
  Returned =>
    \A k \in key_cols : k # target_col => ~HasCol(Out, k)

\* C1 amended: every key column other than target_col and other than the
\* designated target name is absent from the returned dataset.
C1_KeyColsAbsentButTarget ==
  Returned =>
    \A k \in key_cols :
      (k # target_col /\ k # ExpectedTarget) => ~HasCol(Out, k)

C1_Witness ==
  /\ Returned /\ run = 1
  /\ \E k \in key_cols :
       /\ k # target_col
       /\ HasCol(dataset, k)
       /\ nunique(Series(dataset, k)) # 1
       /\ ~HasCol(Out, k)

\* C2: the returned dataset has exactly one target column, it is the last
\* column, and it is named log_<target_col> under the transform and
\* target_col otherwise.
C2_TargetIsLast ==
  Returned =>
    /\ Len(Out.columns) >= 1
    /\ Out.columns[Len(Out.columns)].name = ExpectedTarget
    /\ Cardinality({i \in 1..Len(Out.columns) :
                      Out.columns[i].name = ExpectedTarget}) = 1

\* C3: every cell of the returned dataset holds a present value.
C3_NoMissingValues ==
  Returned =>
    \A i \in 1..Len(Out.columns) : ~HasNA(Out.columns[i].cells)

\* C4: any two distinct feature columns of the returned dataset have a
\* defined correlation whose absolute value is at most corr_threshold.
C4_CorrelationBound ==
  Returned =>
    \A i, j \in OtherColumns(Out) :
      i # j =>
        /\ CorrDefined(Out.columns[i].cells, Out.columns[j].cells)
        /\ ~AbsCorrAbove(Out.columns[i].cells, Out.columns[j].cells,
                         corr_threshold)

C4_Witness ==
  /\ Returned /\ run = 1
  /\ Cardinality(OtherColumns(Out)) >= 2
  /\ \E n \in Range(drop_high_corr) : n # ExpectedTarget

\* C5: every returned dataset has at least one feature column besides the
\* target.
C5_HasAFeature ==
  Returned => OtherColumns(Out) # {}

\* C6: in regression mode the returned rows are exactly the input rows whose
\* target lies within [Q1 - 1.5 IQR, Q3 + 1.5 IQR] of the input target, in
\* input order; in classification mode they are the input rows.
TukeyRows(s) ==
  LET q1 == Quantile4(s, 1)
      q3 == Quantile4(s, 3)
  IN {i \in 1..Len(s) :
        /\ ~IsNA(s[i]) /\ ~IsNA(q1)
        /\ 2 * Value(q1) - 3 * (Value(q3) - Value(q1)) <= 8 * Value(s[i])
        /\ 8 * Value(s[i]) <= 2 * Value(q3) + 3 * (Value(q3) - Value(q1))}
C6_RowSet ==
  Returned =>
    /\ Out.index =
         IF classification THEN dataset.index
         ELSE Take(dataset.index, TukeyRows(Series(dataset, target_col)), 1)
    /\ Len(Out.index) <= Len(dataset.index)

C6_Witness ==
  /\ Returned /\ run = 1 /\ ~classification
  /\ Len(Out.index) > 0
  /\ Len(Out.index) < Len(dataset.index)

\* C7 as stated: the second call on the returned dataset returns, with the
\* same set of columns, in both modes.
C7_Idempotent ==
  (run = 2 /\ Stopped) =>
    (Returned /\ NameSet(Out) = NameSet(dataset))

\* C7 amended: in classification mode the second call on the returned
\* dataset returns, with the same set of columns.
C7_IdempotentClassification ==
  (run = 2 /\ Stopped /\ classification) =>
    (Returned /\ NameSet(Out) = NameSet(dataset))

C7_Witness ==
  /\ run = 2 /\ Returned /\ classification /\ log_transform
  /\ Cardinality(OtherColumns(Out)) >= 2

\* C8: no column of the returned dataset, feature or target, is constant:
\* each has at least two distinct values.
C8_NoConstantColumn ==
  Returned =>
    \A i \in 1..Len(Out.columns) : nunique(Out.columns[i].cells) >= 2

\* C9: the feature frame that enters the cleanup, the target-correlation
\* filter and the pairwise pruning holds neither the designated target nor
\* the original target.
C9_FeaturesExcludeTarget ==
  pc \in {"cleanup", "select", "prune", "final"} =>
    /\ ~HasCol(features, target_name)
    /\ ~HasCol(features, target_col)

\* C10: the pruning stage removes column j exactly when some column earlier
\* in the list has a defined |corr| with j above corr_threshold, whether or
\* not that earlier column is removed; the survivors keep their order.
EarlierAbove(f, j) ==
  \E i \in 1..(j - 1) :
    /\ CorrDefined(f.columns[i].cells, f.columns[j].cells)
    /\ AbsCorrAbove(f.columns[i].cells, f.columns[j].cells, corr_threshold)
C10_PruningRule ==
  [][pc = "prune" =>
       /\ features'.columns =
            Take(features.columns,
                 {j \in 1..Len(features.columns) : ~EarlierAbove(features, j)}, 1)
       /\ (features.columns # <<>> =>
             features'.columns[1] = features.columns[1])]_vars

C10_Witness ==
  /\ pc = "final"
  /\ features.columns # <<>>
  /\ \E n \in Range(drop_high_corr) :
       \A i \in 1..Len(features.columns) :
         ~AbsCorrAbove(features.columns[i].cells, Series(data, n),
                       corr_threshold)

=============================================================================
